---------------------------- MODULE Spec2Model ----------------------------
(***************************************************************************)
(* quantor: quantifier evaluators over finite sequences.                   *)
(*                                                                         *)
(* The library keeps no state between calls.  A behaviour of this model is *)
(* one call: Init draws the operation and its arguments, and the action of *)
(* that operation applies the function and stores what it returned,        *)
(* together with the predicate invocations it made, in order.              *)
(*                                                                         *)
(* Sequences are 1-based here and 0-based in the source: every index a     *)
(* failure descriptor carries is the source's 0-based index.               *)
(***************************************************************************)
EXTENDS Integers, Sequences, FiniteSets

\* Elements are the integers 0..MaxVal.
MaxVal == 2
\* Longest sequence given to a single-sequence operation.
MaxLen == 3
\* Longest left and right sequence given to a nested operation.
MaxLenA == 2
MaxLenB == 2
\* Largest expected count given to exactly_n.
MaxN == 4
\* Longest sequence given to select_duplicates.
MaxLenDup == 4

Vals == 0..MaxVal

SeqsUpTo(k) == UNION {[1..m -> Vals] : m \in 0..k}

\* A unary predicate is the set of the values it holds for: every subset.
UnaryPreds == SUBSET Vals

\* A binary predicate is the set of the pairs it holds for.  The ones drawn
\* are every predicate decided by the parities of its two arguments (sixteen,
\* the always-true and the always-false one among them) and the six order
\* comparisons of the documentation's examples (a < b, x > y, ...).
Pairs == Vals \X Vals
ParityPreds ==
    {{xy \in Pairs : <<xy[1] % 2, xy[2] % 2>> \in r} :
        r \in SUBSET ({0, 1} \X {0, 1})}
OrderPreds ==
    {{xy \in Pairs : xy[1] < xy[2]}, {xy \in Pairs : xy[1] <= xy[2]},
     {xy \in Pairs : xy[1] = xy[2]}, {xy \in Pairs : xy[1] # xy[2]},
     {xy \in Pairs : xy[1] > xy[2]}, {xy \in Pairs : xy[1] >= xy[2]}}
BinaryPreds == ParityPreds \cup OrderPreds

VARIABLES
    op,      \* the operation called
    iter,    \* its sequence (the left sequence `a` of a nested operation)
    b,       \* the right sequence of a nested operation
    n,       \* the expected count of exactly_n
    pred,    \* the unary predicate
    pred2,   \* the binary predicate
    subject, \* the result or error an inspection method is called on
    pc,      \* "call" before the function has run, "done" after
    result,  \* what the function returned; a Vec<&T> is the sequence of the
             \* 0-based positions of iter it borrows
    calls    \* the predicate invocations made, in order, by 0-based position:
             \* <<i>> is pred(iter[i]) and <<i, j>> is pred(a[i], b[j]); a
             \* nested operation first takes the items of b from its
             \* iterator, and there <<j>> is the taking of b[j]

vars == <<op, iter, b, n, pred, pred2, subject, pc, result, calls>>
args == <<op, iter, b, n, pred, pred2, subject>>

-----------------------------------------------------------------------------
(* error.rs: Result<(), QuantorError>                                      *)

Ok == [tag |-> "Ok"]
Pending == [tag |-> "Pending"]

PredicateFailed(kind, index) ==
    [tag |-> "PredicateFailed", kind |-> kind, index |-> index]
EmptyInput(kind) ==
    [tag |-> "EmptyInput", kind |-> kind]
NoMatch(kind) ==
    [tag |-> "NoMatch", kind |-> kind]
UnexpectedMatch(kind, index) ==
    [tag |-> "UnexpectedMatch", kind |-> kind, index |-> index]
NotAllEqual(kind, index) ==
    [tag |-> "NotAllEqual", kind |-> kind, index |-> index]
\* structured.rs and nested.rs build these three without a kind.
PairwiseFailed(index) ==
    [tag |-> "PairwiseFailed", index |-> index]
ForAllExistsFailed(outer_index) ==
    [tag |-> "ForAllExistsFailed", outer_index |-> outer_index]
ExistsForAllFailed(outer_index) ==
    [tag |-> "ExistsForAllFailed", outer_index |-> outer_index]
ExactlyNFailed(kind, found, expected) ==
    [tag |-> "ExactlyNFailed", kind |-> kind, found |-> found, expected |-> expected]
Custom(msg) ==
    [tag |-> "Custom", msg |-> msg]

\* enum QuantorKind
QuantorKind ==
    {"Forall", "Exists", "None", "ExactlyOne", "ExactlyN", "AllEqual",
     "Pairwise", "ForAllExists", "ExistsForAll", "Custom"}

is_ok(r) == r.tag = "Ok"
is_err(r) == r.tag # "Ok"

\* Option<usize>
NoIndex == <<>>
SomeIndex(i) == <<i>>
unwrap_or(o, d) == IF o = NoIndex THEN d ELSE o[1]

\* QuantorError::kind: decided by the variant alone, but for EmptyInput
kind(e) ==
    CASE e.tag = "PredicateFailed" -> "Forall"
      [] e.tag = "EmptyInput" -> e.kind
      [] e.tag = "NoMatch" -> "Exists"
      [] e.tag = "UnexpectedMatch" -> "None"
      [] e.tag = "NotAllEqual" -> "AllEqual"
      [] e.tag = "PairwiseFailed" -> "Pairwise"
      [] e.tag = "ForAllExistsFailed" -> "ForAllExists"
      [] e.tag = "ExistsForAllFailed" -> "ExistsForAll"
      [] e.tag = "ExactlyNFailed" -> "ExactlyN"
      [] e.tag = "Custom" -> "Custom"

\* failing_index as its documentation has it: an index for all_equal and
\* existsforall failures too
failing_index_as_documented(r) ==
    CASE r.tag \in {"PredicateFailed", "UnexpectedMatch", "PairwiseFailed",
                    "NotAllEqual"} -> SomeIndex(r.index)
      [] r.tag \in {"ForAllExistsFailed", "ExistsForAllFailed"} ->
             SomeIndex(r.outer_index)
      [] OTHER -> NoIndex

\* QuantorResultExt::failing_index
failing_index(r) ==
    CASE r.tag = "PredicateFailed" -> SomeIndex(r.index)
      [] r.tag = "UnexpectedMatch" -> SomeIndex(r.index)
      [] r.tag = "PairwiseFailed" -> SomeIndex(r.index)
      [] r.tag = "ForAllExistsFailed" -> SomeIndex(r.outer_index)
      [] OTHER -> NoIndex

\* match_count yielding the expected count
match_count_expected(r) ==
    CASE r.tag = "ExactlyNFailed" -> SomeIndex(r.expected)
      [] OTHER -> NoIndex

\* QuantorResultExt::match_count
match_count(r) ==
    CASE r.tag = "ExactlyNFailed" -> SomeIndex(r.found)
      [] OTHER -> NoIndex

\* How a macro of macros/assertions.rs ends, or any call that panics: `macro`
\* names what panicked and `payload` is what it panicked with.
Completed == [tag |-> "Completed"]
Panic(macro, payload) == [tag |-> "Panic", macro |-> macro, payload |-> payload]

\* What an evaluator hands back: its result and the invocations it made.
Ret(r, cs) == [result |-> r, calls |-> cs]

\* pred(item) and pred(x, y)
Holds(p, x) == x \in p
Holds2(p, x, y) == <<x, y>> \in p

-----------------------------------------------------------------------------
(* quantifiers/basic.rs                                                    *)

\* for (i, item) in iter.into_iter().enumerate(), from 0-based position i
RECURSIVE forall_loop(_, _, _, _)
forall_loop(xs, p, i, cs) ==
    IF i >= Len(xs) THEN Ret(Ok, cs)
    ELSE IF ~Holds(p, xs[i + 1])
         THEN Ret(PredicateFailed("Forall", i), Append(cs, <<i>>))
         ELSE forall_loop(xs, p, i + 1, Append(cs, <<i>>))

\* forall reporting a one-based index
forall_one_based(xs, p) ==
    LET r == forall_loop(xs, p, 0, <<>>)
    IN  IF is_err(r.result)
        THEN Ret(PredicateFailed("Forall", r.result.index + 1), r.calls)
        ELSE r

forall(xs, p) == forall_loop(xs, p, 0, <<>>)

\* for item in iter
RECURSIVE exists_loop(_, _, _, _)
exists_loop(xs, p, i, cs) ==
    IF i >= Len(xs) THEN Ret(NoMatch("Exists"), cs)
    ELSE IF Holds(p, xs[i + 1])
         THEN Ret(Ok, Append(cs, <<i>>))
         ELSE exists_loop(xs, p, i + 1, Append(cs, <<i>>))

\* the loop going on to the end of the sequence after a match
RECURSIVE exists_scan_loop(_, _, _, _, _)
exists_scan_loop(xs, p, i, found, cs) ==
    IF i >= Len(xs)
    THEN Ret(IF found THEN Ok ELSE NoMatch("Exists"), cs)
    ELSE exists_scan_loop(xs, p, i + 1, found \/ Holds(p, xs[i + 1]),
                          Append(cs, <<i>>))

\* exists that does not return at the first match
exists_full_scan(xs, p) == exists_scan_loop(xs, p, 0, FALSE, <<>>)

\* exists taking the empty sequence for a success
exists_vacuous(xs, p) ==
    IF Len(xs) = 0 THEN Ret(Ok, <<>>) ELSE exists_loop(xs, p, 0, <<>>)

exists(xs, p) == exists_loop(xs, p, 0, <<>>)

\* for (index, item) in iter.into_iter().enumerate()
RECURSIVE none_loop(_, _, _, _)
none_loop(xs, p, index, cs) ==
    IF index >= Len(xs) THEN Ret(Ok, cs)
    ELSE IF Holds(p, xs[index + 1])
         THEN Ret(UnexpectedMatch("None", index), Append(cs, <<index>>))
         ELSE none_loop(xs, p, index + 1, Append(cs, <<index>>))

\* none reporting the position after the match
none_index_after(xs, p) ==
    LET r == none_loop(xs, p, 0, <<>>)
    IN  IF is_err(r.result)
        THEN Ret(UnexpectedMatch("None", r.result.index + 1), r.calls)
        ELSE r

\* none with the test negated: it fails on the first element that does not match
none_negated(xs, p) == none_loop(xs, Vals \ p, 0, <<>>)

none(xs, p) == none_loop(xs, p, 0, <<>>)

\* for (index, item) in iter, with the running `matched`, and what follows
\* the loop
RECURSIVE exactly_one_loop(_, _, _, _, _)
exactly_one_loop(xs, p, index, matched, cs) ==
    IF index >= Len(xs)
    THEN IF matched = 1
         THEN Ret(Ok, cs)
         ELSE Ret(PredicateFailed("ExactlyOne", 0), cs)
    ELSE IF Holds(p, xs[index + 1])
         THEN IF matched + 1 > 1
              THEN Ret(UnexpectedMatch("ExactlyOne", index), Append(cs, <<index>>))
              ELSE exactly_one_loop(xs, p, index + 1, matched + 1, Append(cs, <<index>>))
         ELSE exactly_one_loop(xs, p, index + 1, matched, Append(cs, <<index>>))

\* exactly_one without the check for empty input
exactly_one_no_peek(xs, p) == exactly_one_loop(xs, p, 0, 0, <<>>)

exactly_one(xs, p) ==
    IF Len(xs) = 0   \* iter.peek().is_none()
    THEN Ret(EmptyInput("ExactlyOne"), <<>>)
    ELSE exactly_one_loop(xs, p, 0, 0, <<>>)

\* for (i, item) in iter.enumerate(), over what follows `first`
RECURSIVE all_equal_loop(_, _, _)
all_equal_loop(rest, first, i) ==
    IF i >= Len(rest) THEN Ret(Ok, <<>>)
    ELSE IF rest[i + 1] # first
         THEN Ret(NotAllEqual("AllEqual", i + 1), <<>>)
         ELSE all_equal_loop(rest, first, i + 1)

\* all_equal taking the first element with iter.next().unwrap()
all_equal_unwrap_first(xs) ==
    IF Len(xs) > 0
    THEN all_equal_loop(Tail(xs), Head(xs), 0)
    ELSE Ret(Panic("unwrap", "Option::unwrap on a None value"), <<>>)

\* all_equal reporting the position within what follows the first element
all_equal_tail_index(xs) ==
    LET r == IF Len(xs) > 0
             THEN all_equal_loop(Tail(xs), Head(xs), 0)
             ELSE Ret(Ok, <<>>)
    IN  IF is_err(r.result)
        THEN Ret(NotAllEqual("AllEqual", r.result.index - 1), r.calls)
        ELSE r

all_equal(xs) ==
    IF Len(xs) > 0   \* if let Some(first) = iter.next()
    THEN all_equal_loop(Tail(xs), Head(xs), 0)
    ELSE Ret(Ok, <<>>)

\* iter.into_iter().filter(|x| pred(x)).count(), from position i
RECURSIVE filter_count(_, _, _, _, _)
filter_count(xs, p, i, found, cs) ==
    IF i >= Len(xs) THEN Ret(found, cs)
    ELSE filter_count(xs, p, i + 1,
                      IF Holds(p, xs[i + 1]) THEN found + 1 ELSE found,
                      Append(cs, <<i>>))

\* the count leaving the sequence at the first match beyond `limit`
RECURSIVE filter_count_until(_, _, _, _, _, _)
filter_count_until(xs, p, i, found, limit, cs) ==
    IF i >= Len(xs) \/ found > limit THEN Ret(found, cs)
    ELSE filter_count_until(xs, p, i + 1,
                            IF Holds(p, xs[i + 1]) THEN found + 1 ELSE found,
                            limit, Append(cs, <<i>>))

\* exactly_n that leaves the sequence once the count exceeds the expected one
exactly_n_leaving_early(xs, k, p) ==
    LET counted == filter_count_until(xs, p, 0, 0, k, <<>>)
        found == counted.result
    IN  IF found = k
        THEN Ret(Ok, counted.calls)
        ELSE Ret(ExactlyNFailed("ExactlyN", found, k), counted.calls)

\* exactly_n content with at least the expected count
exactly_n_at_least(xs, k, p) ==
    LET counted == filter_count(xs, p, 0, 0, <<>>)
        found == counted.result
    IN  IF found >= k
        THEN Ret(Ok, counted.calls)
        ELSE Ret(ExactlyNFailed("ExactlyN", found, k), counted.calls)

\* exactly_n that stops counting at the first match beyond the expected count
exactly_n_short_circuit(xs, k, p) ==
    LET counted == filter_count(xs, p, 0, 0, <<>>)
        found == IF counted.result > k THEN k + 1 ELSE counted.result
    IN  IF found = k
        THEN Ret(Ok, counted.calls)
        ELSE Ret(ExactlyNFailed("ExactlyN", found, k), counted.calls)

exactly_n(xs, k, p) ==
    LET counted == filter_count(xs, p, 0, 0, <<>>)
        found == counted.result
    IN  IF found = k
        THEN Ret(Ok, counted.calls)
        ELSE Ret(ExactlyNFailed("ExactlyN", found, k), counted.calls)

-----------------------------------------------------------------------------
(* quantifiers/structured.rs                                               *)

\* for (i, curr) in iter.enumerate(), over what follows the first element;
\* curr is at position i + 1 of the whole sequence and prev at position i
RECURSIVE pairwise_loop(_, _, _, _, _)
pairwise_loop(rest, p, prev, i, cs) ==
    IF i >= Len(rest) THEN Ret(Ok, cs)
    ELSE LET curr == rest[i + 1]
         IN  IF ~Holds2(p, prev, curr)
             THEN Ret(PairwiseFailed(i), Append(cs, <<i, i + 1>>))
             ELSE pairwise_loop(rest, p, curr, i + 1, Append(cs, <<i, i + 1>>))

\* pairwise reporting the position of the second element of the failing pair
pairwise_second_index(xs, p) ==
    LET r == IF Len(xs) = 0
             THEN Ret(Ok, <<>>)
             ELSE pairwise_loop(Tail(xs), p, Head(xs), 0, <<>>)
    IN  IF is_err(r.result)
        THEN Ret(PairwiseFailed(r.result.index + 1), r.calls)
        ELSE r

pairwise(xs, p) ==
    IF Len(xs) = 0   \* iter.next() is None
    THEN Ret(Ok, <<>>)
    ELSE pairwise_loop(Tail(xs), p, Head(xs), 0, <<>>)

\* iter.into_iter().filter(|x| pred(x) == want).collect(), from position i:
\* failing_elements filters on !pred(x), select_where on pred(x)
RECURSIVE filter_collect(_, _, _, _, _, _)
filter_collect(xs, p, want, i, acc, cs) ==
    IF i >= Len(xs) THEN Ret(acc, cs)
    ELSE filter_collect(xs, p, want, i + 1,
                        IF Holds(p, xs[i + 1]) = want THEN Append(acc, i) ELSE acc,
                        Append(cs, <<i>>))

\* failing_elements with the negation left out
failing_elements_not_negated(xs, p) == filter_collect(xs, p, TRUE, 0, <<>>, <<>>)

failing_elements(xs, p) == filter_collect(xs, p, FALSE, 0, <<>>, <<>>)

-----------------------------------------------------------------------------
(* quantifiers/selection.rs                                                *)

\* the values borrowed by a Vec<&T> into xs
Deref(xs, refs) == [k \in 1..Len(refs) |-> xs[refs[k] + 1]]

\* for item in iter, with the HashSet `uniques` (of values: &T hashes and
\* compares as T) and the Vec `result`
RECURSIVE select_unique_loop(_, _, _, _, _, _)
select_unique_loop(xs, p, i, uniques, res, cs) ==
    IF i >= Len(xs) THEN Ret(res, cs)
    ELSE LET item == xs[i + 1]
         IN  IF Holds(p, item) /\ item \notin uniques
             THEN select_unique_loop(xs, p, i + 1, uniques \cup {item},
                                     Append(res, i), Append(cs, <<i>>))
             ELSE select_unique_loop(xs, p, i + 1, uniques, res, Append(cs, <<i>>))

\* select_where with the filter starting at the second element
select_where_from_second(xs, p) == filter_collect(xs, p, TRUE, 1, <<>>, <<>>)

\* select_where dropping the later occurrences of a value
select_where_deduplicating(xs, p) == select_unique_loop(xs, p, 0, {}, <<>>, <<>>)

select_where(xs, p) == filter_collect(xs, p, TRUE, 0, <<>>, <<>>)

\* select_unique keeping every occurrence
select_unique_keeping_all(xs, p) == filter_collect(xs, p, TRUE, 0, <<>>, <<>>)

select_unique(xs, p) == select_unique_loop(xs, p, 0, {}, <<>>, <<>>)

\* for item in iter { *counts.entry(item).or_insert(0) += 1 }: the HashMap
\* `counts` as a function from the values seen to the borrow that became the
\* key (the first occurrence) and the count
RECURSIVE count_loop(_, _, _)
count_loop(xs, i, counts) ==
    IF i >= Len(xs) THEN counts
    ELSE LET item == xs[i + 1]
         IN  IF item \in DOMAIN counts
             THEN count_loop(xs, i + 1,
                             [counts EXCEPT ![item].count = @ + 1])
             ELSE count_loop(xs, i + 1,
                             [v \in DOMAIN counts \cup {item} |->
                                 IF v = item
                                 THEN [key |-> i, count |-> 0 + 1]
                                 ELSE counts[v]])

\* every order in which the members of the set S can be iterated
Orders(S) ==
    {f \in [1..Cardinality(S) -> S] : \A x \in S : \E k \in DOMAIN f : f[k] = x}

\* select_duplicates keeping the values counted at least once
select_duplicates_all_values(xs) ==
    LET counts == count_loop(xs, 0, <<>>)
    IN  Orders({counts[v].key : v \in {w \in DOMAIN counts : counts[w].count > 0}})

\* counts.into_iter().filter(|(_, count)| *count > 1).map(|(item, _)| item)
\* .collect(): a HashMap iterates in an order of its own, so this is the set
\* of the vectors the call can return
select_duplicates(xs) ==
    LET counts == count_loop(xs, 0, <<>>)
    IN  Orders({counts[v].key : v \in {w \in DOMAIN counts : counts[w].count > 1}})

-----------------------------------------------------------------------------
(* quantifiers/nested.rs                                                   *)

\* b.into_iter().collect(): takes every item of b from its iterator, in
\* order, into the Vec it returns
collect(bs, cs) == Ret(bs, cs \o [j \in 1..Len(bs) |-> <<j - 1>>])

\* the inner loop of forallexists going through the whole of b_vec
RECURSIVE forallexists_inner_full(_, _, _, _, _, _)
forallexists_inner_full(item_a, b_vec, p, outer_index, j, cs) ==
    IF j >= Len(b_vec) THEN Ret(FALSE, cs)
    ELSE LET rest == forallexists_inner_full(item_a, b_vec, p, outer_index, j + 1,
                                             Append(cs, <<outer_index, j>>))
         IN  Ret(Holds2(p, item_a, b_vec[j + 1]) \/ rest.result, rest.calls)

\* for item_b in &b_vec { if pred(item_a, item_b) { matched = true; break } }
\* returns `matched`
RECURSIVE forallexists_inner(_, _, _, _, _, _)
forallexists_inner(item_a, b_vec, p, outer_index, j, cs) ==
    IF j >= Len(b_vec) THEN Ret(FALSE, cs)
    ELSE IF Holds2(p, item_a, b_vec[j + 1])
         THEN Ret(TRUE, Append(cs, <<outer_index, j>>))
         ELSE forallexists_inner(item_a, b_vec, p, outer_index, j + 1,
                                 Append(cs, <<outer_index, j>>))

\* for (outer_index, item_a) in a.into_iter().enumerate()
RECURSIVE forallexists_loop(_, _, _, _, _)
forallexists_loop(a, b_vec, p, outer_index, cs) ==
    IF outer_index >= Len(a) THEN Ret(Ok, cs)
    ELSE LET inner == forallexists_inner(a[outer_index + 1], b_vec, p, outer_index, 0, cs)
             matched == inner.result
         IN  IF ~matched
             THEN Ret(ForAllExistsFailed(outer_index), inner.calls)
             ELSE forallexists_loop(a, b_vec, p, outer_index + 1, inner.calls)

\* forallexists whose `matched` is not reset for each left element: once some
\* left element has found a partner, every later one passes
RECURSIVE forallexists_sticky_loop(_, _, _, _, _, _)
forallexists_sticky_loop(a, b_vec, p, outer_index, was_matched, cs) ==
    IF outer_index >= Len(a) THEN Ret(Ok, cs)
    ELSE LET inner == forallexists_inner(a[outer_index + 1], b_vec, p, outer_index, 0, cs)
             matched == was_matched \/ inner.result
         IN  IF ~matched
             THEN Ret(ForAllExistsFailed(outer_index), inner.calls)
             ELSE forallexists_sticky_loop(a, b_vec, p, outer_index + 1, matched,
                                           inner.calls)

forallexists_sticky(a, bs, p) ==
    LET collected == collect(bs, <<>>)
    IN  forallexists_sticky_loop(a, collected.result, p, 0, FALSE, collected.calls)

forallexists(a, bs, p) ==
    LET collected == collect(bs, <<>>)
        b_vec == collected.result
    IN  forallexists_loop(a, b_vec, p, 0, collected.calls)

\* for item_b in &b_vec { if !pred(item_a, item_b) { all_match = false; break } }
\* returns `all_match`
RECURSIVE existsforall_inner(_, _, _, _, _, _)
existsforall_inner(item_a, b_vec, p, index, j, cs) ==
    IF j >= Len(b_vec) THEN Ret(TRUE, cs)
    ELSE IF ~Holds2(p, item_a, b_vec[j + 1])
         THEN Ret(FALSE, Append(cs, <<index, j>>))
         ELSE existsforall_inner(item_a, b_vec, p, index, j + 1,
                                 Append(cs, <<index, j>>))

\* for (index, item_a) in a.into_iter().enumerate(), and the Err after it
RECURSIVE existsforall_loop(_, _, _, _, _, _)
existsforall_loop(a, b_vec, p, index, first_index, cs) ==
    IF index >= Len(a)
    THEN Ret(ExistsForAllFailed(unwrap_or(first_index, 0)), cs)
    ELSE LET inner == existsforall_inner(a[index + 1], b_vec, p, index, 0, cs)
             all_match == inner.result
         IN  IF all_match
             THEN Ret(Ok, inner.calls)
             ELSE existsforall_loop(a, b_vec, p, index + 1,
                                    IF first_index = NoIndex
                                    THEN SomeIndex(index)
                                    ELSE first_index,
                                    inner.calls)

\* existsforall whose `first_index` is overwritten by every failing left
\* element: it reports the last one
RECURSIVE existsforall_last_loop(_, _, _, _, _, _)
existsforall_last_loop(a, b_vec, p, index, first_index, cs) ==
    IF index >= Len(a)
    THEN Ret(ExistsForAllFailed(unwrap_or(first_index, 0)), cs)
    ELSE LET inner == existsforall_inner(a[index + 1], b_vec, p, index, 0, cs)
         IN  IF inner.result
             THEN Ret(Ok, inner.calls)
             ELSE existsforall_last_loop(a, b_vec, p, index + 1, SomeIndex(index),
                                         inner.calls)

existsforall_last_index(a, bs, p) ==
    LET collected == collect(bs, <<>>)
    IN  existsforall_last_loop(a, collected.result, p, 0, NoIndex, collected.calls)

existsforall(a, bs, p) ==
    LET collected == collect(bs, <<>>)
        b_vec == collected.result
    IN  existsforall_loop(a, b_vec, p, 0, NoIndex, collected.calls)

-----------------------------------------------------------------------------
(* quantor_ext.rs: impl<T, S: AsRef<[T]>> QuantorExt<T> for S.  self.as_ref() *)
(* is the slice of the elements of self, and rhs.iter() goes through rhs in   *)
(* order.                                                                     *)

QuantorExt_forall(self, p) == forall(self, p)

QuantorExt_exists(self, p) == exists(self, p)

QuantorExt_none(self, p) == none(self, p)

QuantorExt_exactly_one(self, p) == exactly_one(self, p)

QuantorExt_exactly_n(self, k, p) == exactly_n(self, k, p)

QuantorExt_all_equal(self) == all_equal(self)

\* the method handing its two slices over in the other order
QuantorExt_forallexists_swapped(self, rhs, p) == forallexists(rhs, self, p)

QuantorExt_forallexists(self, rhs, p) == forallexists(self, rhs, p)

QuantorExt_existsforall(self, rhs, p) == existsforall(self, rhs, p)

QuantorExt_pairwise(self, p) == pairwise(self, p)

QuantorExt_failing_elements(self, p) == failing_elements(self, p)

QuantorExt_select_where(self, p) == select_where(self, p)

QuantorExt_select_unique(self, p) == select_unique(self, p)

QuantorExt_select_duplicates(self) == select_duplicates(self)

-----------------------------------------------------------------------------
(* macros/assertions.rs.  An assertion completes or panics; the arms that   *)
(* take a message run the same check as the arms that take none and differ  *)
(* in the text of the panic, but for assert_unique!.                        *)

\* match core(..) { Ok(()) => {}, Err(e) => panic!("<macro> failed: {}", e) }
match_or_panic(macro, r) ==
    IF is_ok(r.result)
    THEN Ret(Completed, r.calls)
    ELSE Ret(Panic(macro, r.result), r.calls)

assert_forall(xs, p) == match_or_panic("assert_forall!", forall(xs, p))

assert_exists(xs, p) == match_or_panic("assert_exists!", exists(xs, p))

assert_exactly_n(xs, count, p) ==
    match_or_panic("assert_exactly_n!", exactly_n(xs, count, p))

assert_none(xs, p) == match_or_panic("assert_none!", none(xs, p))

assert_pairwise(xs, p) == match_or_panic("assert_pairwise!", pairwise(xs, p))

\* assert!(cond, ..)
assert(macro, cond, text) ==
    IF cond THEN Completed ELSE Panic(macro, text)

\* assert_unique!(iter): the outcomes over the vectors select_duplicates can
\* return
assert_unique(xs) ==
    {LET all_unique == vec = <<>>   \* is_empty()
     IN  assert("assert_unique!", all_unique, "duplicate elements found.") :
        vec \in select_duplicates(xs)}

\* for item in iter { if !set.insert(item) { all_unique = false; break; } }
\* from position i, with the HashSet `set` of the values inserted
RECURSIVE insert_loop(_, _, _)
insert_loop(xs, i, set) ==
    IF i >= Len(xs) THEN TRUE
    ELSE IF xs[i + 1] \in set
         THEN FALSE
         ELSE insert_loop(xs, i + 1, set \cup {xs[i + 1]})

\* the loop testing each item against the one before it alone
RECURSIVE insert_loop_adjacent(_, _, _)
insert_loop_adjacent(xs, i, set) ==
    IF i >= Len(xs) THEN TRUE
    ELSE IF xs[i + 1] \in set
         THEN FALSE
         ELSE insert_loop_adjacent(xs, i + 1, {xs[i + 1]})

\* assert_unique!(iter, msg) finding repeats of neighbours only
assert_unique_msg_adjacent(xs, msg) ==
    LET all_unique == insert_loop_adjacent(xs, 0, {})
    IN  assert("assert_unique!", all_unique, msg)

\* assert_unique!(iter, msg)
assert_unique_msg(xs, msg) ==
    LET all_unique == insert_loop(xs, 0, {})
    IN  assert("assert_unique!", all_unique, msg)

\* assert_duplicates!(iter)
assert_duplicates(xs) ==
    {LET has_duplicates == ~(vec = <<>>)   \* !is_empty()
     IN  assert("assert_duplicates!", has_duplicates, "no duplicates found.") :
        vec \in select_duplicates(xs)}

-----------------------------------------------------------------------------

\* The failure descriptors an inspection method is called on: every variant,
\* with every kind, positions up to MaxLen and counts up to MaxN.
Messages == {"custom failure"}
Errors ==
    {PredicateFailed(k, i) : k \in QuantorKind, i \in 0..MaxLen}
    \cup {EmptyInput(k) : k \in QuantorKind}
    \cup {NoMatch(k) : k \in QuantorKind}
    \cup {UnexpectedMatch(k, i) : k \in QuantorKind, i \in 0..MaxLen}
    \cup {NotAllEqual(k, i) : k \in QuantorKind, i \in 0..MaxLen}
    \cup {PairwiseFailed(i) : i \in 0..MaxLen}
    \cup {ForAllExistsFailed(i) : i \in 0..MaxLen}
    \cup {ExistsForAllFailed(i) : i \in 0..MaxLen}
    \cup {ExactlyNFailed(k, f, e) : k \in QuantorKind, f \in 0..MaxN, e \in 0..MaxN}
    \cup {Custom(m) : m \in Messages}
Results == {Ok} \cup Errors

InitCall ==
    \/ /\ op \in {"forall", "exists", "none", "exactly_one",
                  "failing_elements", "select_where", "select_unique"}
       /\ iter \in SeqsUpTo(MaxLen)
       /\ pred \in UnaryPreds
       /\ b = <<>> /\ n = 0 /\ pred2 = {} /\ subject = Pending
    \/ /\ op = "exactly_n"
       /\ iter \in SeqsUpTo(MaxLen)
       /\ n \in 0..MaxN
       /\ pred \in UnaryPreds
       /\ b = <<>> /\ pred2 = {} /\ subject = Pending
    \/ /\ op = "all_equal"
       /\ iter \in SeqsUpTo(MaxLen)
       /\ b = <<>> /\ n = 0 /\ pred = {} /\ pred2 = {} /\ subject = Pending
    \/ /\ op = "select_duplicates"
       /\ iter \in SeqsUpTo(MaxLenDup)
       /\ b = <<>> /\ n = 0 /\ pred = {} /\ pred2 = {} /\ subject = Pending
    \/ /\ op = "pairwise"
       /\ iter \in SeqsUpTo(MaxLen)
       /\ pred2 \in BinaryPreds
       /\ b = <<>> /\ n = 0 /\ pred = {} /\ subject = Pending
    \/ /\ op \in {"forallexists", "existsforall"}
       /\ iter \in SeqsUpTo(MaxLenA)
       /\ b \in SeqsUpTo(MaxLenB)
       /\ pred2 \in BinaryPreds
       /\ n = 0 /\ pred = {} /\ subject = Pending
    \/ /\ op \in {"QuantorExt::forall", "QuantorExt::exists", "QuantorExt::none",
                  "QuantorExt::exactly_one", "QuantorExt::failing_elements",
                  "QuantorExt::select_where", "QuantorExt::select_unique"}
       /\ iter \in SeqsUpTo(MaxLen)
       /\ pred \in UnaryPreds
       /\ b = <<>> /\ n = 0 /\ pred2 = {} /\ subject = Pending
    \/ /\ op = "QuantorExt::exactly_n"
       /\ iter \in SeqsUpTo(MaxLen)
       /\ n \in 0..MaxN
       /\ pred \in UnaryPreds
       /\ b = <<>> /\ pred2 = {} /\ subject = Pending
    \/ /\ op = "QuantorExt::all_equal"
       /\ iter \in SeqsUpTo(MaxLen)
       /\ b = <<>> /\ n = 0 /\ pred = {} /\ pred2 = {} /\ subject = Pending
    \/ /\ op = "QuantorExt::select_duplicates"
       /\ iter \in SeqsUpTo(MaxLenDup)
       /\ b = <<>> /\ n = 0 /\ pred = {} /\ pred2 = {} /\ subject = Pending
    \/ /\ op = "QuantorExt::pairwise"
       /\ iter \in SeqsUpTo(MaxLen)
       /\ pred2 \in OrderPreds
       /\ b = <<>> /\ n = 0 /\ pred = {} /\ subject = Pending
    \/ /\ op \in {"QuantorExt::forallexists", "QuantorExt::existsforall"}
       /\ iter \in SeqsUpTo(MaxLenA)
       /\ b \in SeqsUpTo(MaxLenB)
       /\ pred2 \in OrderPreds
       /\ n = 0 /\ pred = {} /\ subject = Pending
    \/ /\ op \in {"assert_forall!", "assert_exists!", "assert_none!"}
       /\ iter \in SeqsUpTo(MaxLen)
       /\ pred \in UnaryPreds
       /\ b = <<>> /\ n = 0 /\ pred2 = {} /\ subject = Pending
    \/ /\ op = "assert_exactly_n!"
       /\ iter \in SeqsUpTo(MaxLen)
       /\ n \in 0..MaxN
       /\ pred \in UnaryPreds
       /\ b = <<>> /\ pred2 = {} /\ subject = Pending
    \/ /\ op = "assert_pairwise!"
       /\ iter \in SeqsUpTo(MaxLen)
       /\ pred2 \in OrderPreds
       /\ b = <<>> /\ n = 0 /\ pred = {} /\ subject = Pending
    \/ /\ op \in {"assert_unique!", "assert_duplicates!"}
       /\ iter \in SeqsUpTo(MaxLenDup)
       /\ b = <<>> /\ n = 0 /\ pred = {} /\ pred2 = {} /\ subject = Pending
    \/ /\ op = "assert_unique!(msg)"
       /\ iter \in SeqsUpTo(MaxLenDup)
       /\ subject \in Messages
       /\ b = <<>> /\ n = 0 /\ pred = {} /\ pred2 = {}
    \/ /\ op \in {"failing_index", "match_count"}
       /\ subject \in Results
       /\ iter = <<>> /\ b = <<>> /\ n = 0 /\ pred = {} /\ pred2 = {}
    \/ /\ op = "kind"
       /\ subject \in Errors
       /\ iter = <<>> /\ b = <<>> /\ n = 0 /\ pred = {} /\ pred2 = {}

Init ==
    /\ pc = "call"
    /\ result = Pending
    /\ calls = <<>>
    /\ InitCall

Return(r) ==
    /\ pc' = "done"
    /\ result' = r.result
    /\ calls' = r.calls
    /\ UNCHANGED args

Forall ==
    /\ pc = "call" /\ op = "forall"
    /\ Return(forall(iter, pred))

Exists ==
    /\ pc = "call" /\ op = "exists"
    /\ Return(exists(iter, pred))

None ==
    /\ pc = "call" /\ op = "none"
    /\ Return(none(iter, pred))

ExactlyOne ==
    /\ pc = "call" /\ op = "exactly_one"
    /\ Return(exactly_one(iter, pred))

ExactlyN ==
    /\ pc = "call" /\ op = "exactly_n"
    /\ Return(exactly_n(iter, n, pred))

AllEqual ==
    /\ pc = "call" /\ op = "all_equal"
    /\ Return(all_equal(iter))

Pairwise ==
    /\ pc = "call" /\ op = "pairwise"
    /\ Return(pairwise(iter, pred2))

ForAllExists ==
    /\ pc = "call" /\ op = "forallexists"
    /\ Return(forallexists(iter, b, pred2))

ExistsForAll ==
    /\ pc = "call" /\ op = "existsforall"
    /\ Return(existsforall(iter, b, pred2))

FailingElements ==
    /\ pc = "call" /\ op = "failing_elements"
    /\ Return(failing_elements(iter, pred))

SelectWhere ==
    /\ pc = "call" /\ op = "select_where"
    /\ Return(select_where(iter, pred))

SelectUnique ==
    /\ pc = "call" /\ op = "select_unique"
    /\ Return(select_unique(iter, pred))

SelectDuplicates ==
    /\ pc = "call" /\ op = "select_duplicates"
    /\ \E vec \in select_duplicates(iter) : Return(Ret(vec, <<>>))

FailingIndex ==
    /\ pc = "call" /\ op = "failing_index"
    /\ Return(Ret(failing_index(subject), <<>>))

MatchCount ==
    /\ pc = "call" /\ op = "match_count"
    /\ Return(Ret(match_count(subject), <<>>))

Kind ==
    /\ pc = "call" /\ op = "kind"
    /\ Return(Ret(kind(subject), <<>>))

ExtForall ==
    /\ pc = "call" /\ op = "QuantorExt::forall"
    /\ Return(QuantorExt_forall(iter, pred))

ExtExists ==
    /\ pc = "call" /\ op = "QuantorExt::exists"
    /\ Return(QuantorExt_exists(iter, pred))

ExtNone ==
    /\ pc = "call" /\ op = "QuantorExt::none"
    /\ Return(QuantorExt_none(iter, pred))

ExtExactlyOne ==
    /\ pc = "call" /\ op = "QuantorExt::exactly_one"
    /\ Return(QuantorExt_exactly_one(iter, pred))

ExtExactlyN ==
    /\ pc = "call" /\ op = "QuantorExt::exactly_n"
    /\ Return(QuantorExt_exactly_n(iter, n, pred))

ExtAllEqual ==
    /\ pc = "call" /\ op = "QuantorExt::all_equal"
    /\ Return(QuantorExt_all_equal(iter))

ExtForAllExists ==
    /\ pc = "call" /\ op = "QuantorExt::forallexists"
    /\ Return(QuantorExt_forallexists(iter, b, pred2))

ExtExistsForAll ==
    /\ pc = "call" /\ op = "QuantorExt::existsforall"
    /\ Return(QuantorExt_existsforall(iter, b, pred2))

ExtPairwise ==
    /\ pc = "call" /\ op = "QuantorExt::pairwise"
    /\ Return(QuantorExt_pairwise(iter, pred2))

ExtFailingElements ==
    /\ pc = "call" /\ op = "QuantorExt::failing_elements"
    /\ Return(QuantorExt_failing_elements(iter, pred))

ExtSelectWhere ==
    /\ pc = "call" /\ op = "QuantorExt::select_where"
    /\ Return(QuantorExt_select_where(iter, pred))

ExtSelectUnique ==
    /\ pc = "call" /\ op = "QuantorExt::select_unique"
    /\ Return(QuantorExt_select_unique(iter, pred))

ExtSelectDuplicates ==
    /\ pc = "call" /\ op = "QuantorExt::select_duplicates"
    /\ \E vec \in QuantorExt_select_duplicates(iter) : Return(Ret(vec, <<>>))

AssertForall ==
    /\ pc = "call" /\ op = "assert_forall!"
    /\ Return(assert_forall(iter, pred))

AssertExists ==
    /\ pc = "call" /\ op = "assert_exists!"
    /\ Return(assert_exists(iter, pred))

AssertExactlyN ==
    /\ pc = "call" /\ op = "assert_exactly_n!"
    /\ Return(assert_exactly_n(iter, n, pred))

AssertNone ==
    /\ pc = "call" /\ op = "assert_none!"
    /\ Return(assert_none(iter, pred))

AssertUnique ==
    /\ pc = "call" /\ op = "assert_unique!"
    /\ \E outcome \in assert_unique(iter) : Return(Ret(outcome, <<>>))

AssertUniqueMsg ==
    /\ pc = "call" /\ op = "assert_unique!(msg)"
    /\ Return(Ret(assert_unique_msg(iter, subject), <<>>))

AssertDuplicates ==
    /\ pc = "call" /\ op = "assert_duplicates!"
    /\ \E outcome \in assert_duplicates(iter) : Return(Ret(outcome, <<>>))

AssertPairwise ==
    /\ pc = "call" /\ op = "assert_pairwise!"
    /\ Return(assert_pairwise(iter, pred2))

Next ==
    \/ Forall
    \/ Exists
    \/ None
    \/ ExactlyOne
    \/ ExactlyN
    \/ AllEqual
    \/ Pairwise
    \/ ForAllExists
    \/ ExistsForAll
    \/ FailingElements
    \/ SelectWhere
    \/ SelectUnique
    \/ SelectDuplicates
    \/ FailingIndex
    \/ MatchCount
    \/ Kind
    \/ ExtForall
    \/ ExtExists
    \/ ExtNone
    \/ ExtExactlyOne
    \/ ExtExactlyN
    \/ ExtAllEqual
    \/ ExtForAllExists
    \/ ExtExistsForAll
    \/ ExtPairwise
    \/ ExtFailingElements
    \/ ExtSelectWhere
    \/ ExtSelectUnique
    \/ ExtSelectDuplicates
    \/ AssertForall
    \/ AssertExists
    \/ AssertExactlyN
    \/ AssertNone
    \/ AssertUnique
    \/ AssertUniqueMsg
    \/ AssertDuplicates
    \/ AssertPairwise

Spec == Init /\ [][Next]_vars

-----------------------------------------------------------------------------
(* What the claims speak of, stated over the arguments alone.              *)

Done(o) == pc = "done" /\ op = o

\* 0-based positions of xs
Positions(xs) == 0..(Len(xs) - 1)
\* the positions whose element satisfies p, and those whose element does not
Matching(xs, p) == {i \in Positions(xs) : xs[i + 1] \in p}
Failing(xs, p) == Positions(xs) \ Matching(xs, p)
Min(S) == CHOOSE x \in S : \A y \in S : x <= y

-----------------------------------------------------------------------------

\* C1: forall(xs, p) succeeds iff every element of xs satisfies p (so on the
\* empty sequence); otherwise it returns PredicateFailed with kind Forall and
\* the smallest 0-based position whose element fails p.  The documented case
\* forall([2,4,5,6], even) fails at index 2.
C1_Forall ==
    /\ Done("forall") =>
         IF Failing(iter, pred) = {}
         THEN result = Ok
         ELSE result = PredicateFailed("Forall", Min(Failing(iter, pred)))
    /\ Done("forall") =>
         forall(<<2, 4, 5, 6>>, {0, 2, 4, 6}).result = PredicateFailed("Forall", 2)

\* forall has failed on an element that is not the first
C1_Witness ==
    /\ Done("forall")
    /\ result.tag = "PredicateFailed"
    /\ result.index = 2

\* C2: exists(xs, p) succeeds iff some element of xs satisfies p; otherwise,
\* the empty sequence included, it returns NoMatch with kind Exists.
C2_Exists ==
    Done("exists") =>
        IF Matching(iter, pred) # {}
        THEN result = Ok
        ELSE result = NoMatch("Exists")

\* exists has failed on the empty sequence
C2_Witness ==
    /\ Done("exists")
    /\ iter = <<>>
    /\ result = NoMatch("Exists")

\* C3: none(xs, p) succeeds iff no element of xs satisfies p (so on the empty
\* sequence); otherwise it returns UnexpectedMatch with kind None and the
\* smallest 0-based position whose element satisfies p.
C3_None ==
    Done("none") =>
        IF Matching(iter, pred) = {}
        THEN result = Ok
        ELSE result = UnexpectedMatch("None", Min(Matching(iter, pred)))

\* none has failed on a match that is not the first element
C3_Witness ==
    /\ Done("none")
    /\ result.tag = "UnexpectedMatch"
    /\ result.index >= 1

\* C4: duality: on the same arguments none succeeds iff exists fails.
C4_Duality ==
    /\ Done("none") => (is_ok(result) <=> is_err(exists(iter, pred).result))
    /\ Done("exists") => (is_err(result) <=> is_ok(none(iter, pred).result))

\* exists has succeeded on a sequence with a match and a non-match, where none
\* fails
C4_Witness ==
    /\ Done("exists")
    /\ is_ok(result)
    /\ Matching(iter, pred) # {} /\ Failing(iter, pred) # {}
    /\ is_err(none(iter, pred).result)

\* the second smallest member of a set of at least two integers
SecondMin(S) == Min(S \ {Min(S)})

\* C5: exactly_one(xs, p) succeeds iff exactly one element of xs satisfies p;
\* otherwise it returns EmptyInput{ExactlyOne} on the empty sequence,
\* UnexpectedMatch{ExactlyOne, index} with the position of the second matching
\* element when two or more match, and PredicateFailed{ExactlyOne, 0} when
\* the sequence is not empty and nothing matches.
C5_ExactlyOne ==
    Done("exactly_one") =>
        LET m == Matching(iter, pred)
        IN  /\ is_ok(result) <=> Cardinality(m) = 1
            /\ iter = <<>> => result = EmptyInput("ExactlyOne")
            /\ Cardinality(m) >= 2 =>
                 result = UnexpectedMatch("ExactlyOne", SecondMin(m))
            /\ (iter # <<>> /\ m = {}) =>
                 result = PredicateFailed("ExactlyOne", 0)

\* exactly_one has failed on a second match that does not follow the first
\* match directly
C5_Witness ==
    /\ Done("exactly_one")
    /\ result = UnexpectedMatch("ExactlyOne", 2)
    /\ Matching(iter, pred) = {0, 2}

\* C6: exactly_n(xs, n, p) succeeds iff the number of elements satisfying p is
\* n (on the empty sequence: iff n = 0); otherwise it returns ExactlyNFailed
\* with expected = n and found = that number, so found # expected in every
\* ExactlyNFailed.  The documented case exactly_n([2,4,6], 2, even) fails with
\* found 3.
C6_ExactlyN ==
    /\ Done("exactly_n") =>
         LET count == Cardinality(Matching(iter, pred))
         IN  /\ IF count = n
                THEN result = Ok
                ELSE result = ExactlyNFailed("ExactlyN", count, n)
             /\ iter = <<>> => (is_ok(result) <=> n = 0)
             /\ result.tag = "ExactlyNFailed" => result.found # result.expected
    /\ Done("exactly_n") =>
         exactly_n(<<2, 4, 6>>, 2, {0, 2, 4, 6}).result
           = ExactlyNFailed("ExactlyN", 3, 2)

\* exactly_n has failed with more matches than expected + 1
C6_Witness ==
    /\ Done("exactly_n")
    /\ result.tag = "ExactlyNFailed"
    /\ result.found = 3 /\ result.expected = 1

\* C7: all_equal(xs) succeeds iff the elements of xs are pairwise equal (so on
\* the empty and on a one-element sequence); otherwise it returns NotAllEqual
\* with kind AllEqual and the smallest position i >= 1 of the whole sequence
\* with xs[i] # xs[0].  The documented case all_equal([1,2,3]) fails at 1.
C7_AllEqual ==
    /\ Done("all_equal") =>
         LET differing == {i \in Positions(iter) : i >= 1 /\ iter[i + 1] # iter[1]}
         IN  IF \A i, j \in Positions(iter) : iter[i + 1] = iter[j + 1]
             THEN result = Ok
             ELSE result = NotAllEqual("AllEqual", Min(differing))
    /\ Done("all_equal") =>
         all_equal(<<1, 2, 3>>).result = NotAllEqual("AllEqual", 1)

\* all_equal has failed on the third element
C7_Witness ==
    /\ Done("all_equal")
    /\ result = NotAllEqual("AllEqual", 2)
    /\ iter[1] = iter[2]

\* the first positions i of the adjacent pairs (xs[i], xs[i+1]) that fail q
FailingPairs(xs, q) ==
    {i \in Positions(xs) : i + 1 < Len(xs) /\ <<xs[i + 1], xs[i + 2]>> \notin q}

\* a < b on 0..3
LessThan == {xy \in (0..3) \X (0..3) : xy[1] < xy[2]}

NoPartner(a, bs, q) ==
    {i \in Positions(a) : \A j \in Positions(bs) : <<a[i + 1], bs[j + 1]>> \notin q}

\* the positions of the left elements that q relates to every right element
AllPartners(a, bs, q) ==
    {i \in Positions(a) : \A j \in Positions(bs) : <<a[i + 1], bs[j + 1]>> \in q}

\* C9: forallexists(A, B, p) succeeds iff every a in A has some b in B with
\* p(a, b) (so when A is empty); otherwise it returns ForAllExistsFailed with
\* the smallest position in A of an element with no partner in B; with B
\* empty and A not, it fails with outer_index 0.
C9_ForAllExists ==
    Done("forallexists") =>
        /\ IF NoPartner(iter, b, pred2) = {}
           THEN result = Ok
           ELSE result = ForAllExistsFailed(Min(NoPartner(iter, b, pred2)))
        /\ iter = <<>> => result = Ok
        /\ (b = <<>> /\ iter # <<>>) => result = ForAllExistsFailed(0)

\* forallexists has failed on its second left element, the first having
\* found its partner in a non-empty right sequence
C9_Witness ==
    /\ Done("forallexists")
    /\ result = ForAllExistsFailed(1)
    /\ b # <<>>

\* C10: existsforall(A, B, p) succeeds iff some a in A satisfies p(a, b) for
\* every b in B (so with B empty iff A is not empty, and never with A empty);
\* every failure is ExistsForAllFailed with outer_index 0, which for A not
\* empty is the position of the first failing left element.
C10_ExistsForAll ==
    Done("existsforall") =>
        /\ IF AllPartners(iter, b, pred2) # {}
           THEN result = Ok
           ELSE result = ExistsForAllFailed(0)
        /\ b = <<>> => (is_ok(result) <=> iter # <<>>)
        /\ iter = <<>> => is_err(result)
        /\ (is_err(result) /\ iter # <<>>) =>
             /\ 0 \notin AllPartners(iter, b, pred2)
             /\ result.outer_index = Min(Positions(iter) \ AllPartners(iter, b, pred2))

\* existsforall has failed after trying two left elements
C10_Witness ==
    /\ Done("existsforall")
    /\ result = ExistsForAllFailed(0)
    /\ Len(iter) = 2 /\ b # <<>>

-----------------------------------------------------------------------------

\* the evaluators whose failure descriptors can carry a position
IndexedOps ==
    {"forall", "none", "exactly_one", "all_equal", "pairwise",
     "forallexists", "existsforall"}
EvaluatorOps == IndexedOps \cup {"exists", "exactly_n"}

\* the index or outer index a failure descriptor carries
CarriesIndex(r) ==
    r.tag \in {"PredicateFailed", "UnexpectedMatch", "NotAllEqual",
               "PairwiseFailed", "ForAllExistsFailed", "ExistsForAllFailed"}
CarriedIndex(r) ==
    IF r.tag \in {"ForAllExistsFailed", "ExistsForAllFailed"}
    THEN r.outer_index
    ELSE r.index

\* C11: the index or outer index of every failure descriptor an evaluator
\* returns is a 0-based position of an element of the sequence it was given
\* (the left sequence of a nested operation): 0 <= index < its length.
C11_IndexInRange ==
    (pc = "done" /\ op \in IndexedOps /\ CarriesIndex(result)) =>
        CarriedIndex(result) \in Positions(iter)

\* the kind of the operation that produced a failure
ProducerKind(o) ==
    CASE o = "forall" -> "Forall"
      [] o = "exists" -> "Exists"
      [] o = "none" -> "None"
      [] o = "exactly_one" -> "ExactlyOne"
      [] o = "exactly_n" -> "ExactlyN"
      [] o = "all_equal" -> "AllEqual"
      [] o = "pairwise" -> "Pairwise"
      [] o = "forallexists" -> "ForAllExists"
      [] o = "existsforall" -> "ExistsForAll"

\* C12: for every failure descriptor e an evaluator returns, e.kind() is the
\* QuantorKind of the operation that produced e.
C12_KindOfProducer ==
    (pc = "done" /\ op \in EvaluatorOps /\ is_err(result)) =>
        kind(result) = ProducerKind(op)

C14_MatchCount ==
    /\ Done("match_count") =>
         IF subject.tag = "ExactlyNFailed"
         THEN result = SomeIndex(subject.found)
         ELSE result = NoIndex
    /\ Done("match_count") =>
         match_count(exactly_n(<<2, 4, 6>>, 2, {0, 2, 4, 6}).result) = SomeIndex(3)

\* match_count has been asked of an ExactlyNFailed whose two counts differ
C14_Witness ==
    /\ Done("match_count")
    /\ subject = ExactlyNFailed("ExactlyN", 3, 2)
    /\ result = SomeIndex(3)

\* C15: failing_index() on a failure of forall, none, pairwise, all_equal or
\* existsforall yields the index the failure carries: for all_equal the
\* position of the first element that differs from the first one (1 for
\* [1,2,3]), for existsforall the outer index.
C15_FailingIndexOfEvaluators ==
    (pc = "done"
       /\ op \in {"forall", "none", "pairwise", "all_equal", "existsforall"}
       /\ is_err(result)) =>
        failing_index(result) = SomeIndex(CarriedIndex(result))

-----------------------------------------------------------------------------

\* a sequence of positions in strictly increasing order: original order
Ascending(refs) ==
    \A k, l \in DOMAIN refs : k < l => refs[k] < refs[l]
Range(f) == {f[k] : k \in DOMAIN f}

Evens == {0, 2, 4, 6}

\* C17: select_where(xs, p) returns exactly the elements of xs that satisfy
\* p, in original order and with duplicates preserved: the subsequence of xs
\* at the positions where p holds.  select_where([0,1,2,3], even) is [0, 2].
C17_SelectWhere ==
    /\ Done("select_where") =>
         /\ Range(result) = Matching(iter, pred)
         /\ Ascending(result)
         /\ Len(result) = Cardinality(Matching(iter, pred))
    /\ Done("select_where") =>
         Deref(<<0, 1, 2, 3>>, select_where(<<0, 1, 2, 3>>, Evens).result) = <<0, 2>>

\* select_where has returned two borrows of equal value and left an element
\* out
C17_Witness ==
    /\ Done("select_where")
    /\ Len(result) >= 2
    /\ iter[result[1] + 1] = iter[result[2] + 1]
    /\ Failing(iter, pred) # {}

\* the positions of the first occurrence of each value that satisfies p
FirstMatching(xs, p) ==
    {i \in Matching(xs, p) : \A j \in Positions(xs) : j < i => xs[j + 1] # xs[i + 1]}

\* C18: select_unique(xs, p) returns the first occurrence of each distinct
\* value of xs that satisfies p, ordered by first occurrence: no value
\* twice, every value satisfying p once, no value failing p.
\* select_unique([0,1,2,2,3], even) is [0, 2].
C18_SelectUnique ==
    /\ Done("select_unique") =>
         LET values == Deref(iter, result)
         IN  /\ Range(result) = FirstMatching(iter, pred)
             /\ Ascending(result)
             /\ \A k, l \in DOMAIN values : values[k] = values[l] => k = l
             /\ Range(values) = {iter[i + 1] : i \in Matching(iter, pred)}
             /\ \A k \in DOMAIN values : values[k] \in pred
    /\ Done("select_unique") =>
         Deref(<<0, 1, 2, 2, 3>>, select_unique(<<0, 1, 2, 2, 3>>, Evens).result)
           = <<0, 2>>

\* select_unique has dropped a later occurrence of a value it returned
C18_Witness ==
    /\ Done("select_unique")
    /\ Len(result) = 2
    /\ Cardinality(Matching(iter, pred)) = 3

\* how often the value v occurs in xs
Occurrences(xs, v) == Cardinality({i \in Positions(xs) : xs[i + 1] = v})
\* the values that occur more than once in xs
Repeated(xs) == {v \in Range(xs) : Occurrences(xs, v) > 1}

\* C19: select_duplicates(xs) returns, compared as a set, exactly the values
\* that occur more than once in xs, one entry for each (one 2 for
\* [0,1,2,2,3]); a value occurring once never appears, and the result is
\* empty iff the elements of xs are all distinct.
C19_SelectDuplicates ==
    /\ Done("select_duplicates") =>
         LET values == Deref(iter, result)
         IN  /\ Range(values) = Repeated(iter)
             /\ Len(values) = Cardinality(Repeated(iter))
             /\ \A k \in DOMAIN values : Occurrences(iter, values[k]) > 1
             /\ result = <<>> <=>
                  \A i, j \in Positions(iter) : iter[i + 1] = iter[j + 1] => i = j
    /\ Done("select_duplicates") =>
         {Deref(<<0, 1, 2, 2, 3>>, vec) : vec \in select_duplicates(<<0, 1, 2, 2, 3>>)}
           = {<<2>>}

\* select_duplicates has returned two values, the second of the sequence
\* before the first
C19_Witness ==
    /\ Done("select_duplicates")
    /\ Len(result) = 2
    /\ result[1] > result[2]

\* C20: failing_elements(xs, p) and select_where(xs, p) partition xs: every
\* position of xs is in exactly one of the two lists, each list keeps the
\* original order, and their lengths sum to the length of xs.
C20_Partition ==
    (Done("failing_elements") \/ Done("select_where")) =>
        LET failed == IF op = "failing_elements"
                      THEN result
                      ELSE failing_elements(iter, pred).result
            selected == IF op = "select_where"
                        THEN result
                        ELSE select_where(iter, pred).result
        IN  /\ Range(failed) \cap Range(selected) = {}
            /\ Range(failed) \cup Range(selected) = Positions(iter)
            /\ Ascending(failed) /\ Ascending(selected)
            /\ Len(failed) + Len(selected) = Len(iter)

\* failing_elements has returned some elements of a sequence and left others
\* to select_where
C20_Witness ==
    /\ Done("failing_elements")
    /\ result # <<>>
    /\ select_where(iter, pred).result # <<>>
    /\ Len(iter) = 3

-----------------------------------------------------------------------------

\* C21: selection is idempotent: select_where with p applied to the values
\* select_where(xs, p) returned yields those values again, and select_unique
\* with p applied to the values select_unique(xs, p) returned yields those
\* values again.
C21_Idempotent ==
    /\ Done("select_where") =>
         LET values == Deref(iter, result)
         IN  Deref(values, select_where(values, pred).result) = values
    /\ Done("select_unique") =>
         LET values == Deref(iter, result)
         IN  Deref(values, select_unique(values, pred).result) = values

\* select_where has returned several elements and left another out
C21_Witness ==
    /\ Done("select_where")
    /\ Len(result) >= 2
    /\ Len(result) < Len(iter)
    /\ iter[result[1] + 1] # iter[result[2] + 1]

\* C22: failing_elements(xs, p) returns, in original order, exactly the
\* elements of xs for which p is false; the list is empty iff forall(xs, p)
\* succeeds, and when forall fails the element at its failing index is the
\* first element of failing_elements(xs, p).
C22_FailingElements ==
    /\ Done("failing_elements") =>
         LET universal == forall(iter, pred).result
         IN  /\ Range(result) = Failing(iter, pred)
             /\ Ascending(result)
             /\ Len(result) = Cardinality(Failing(iter, pred))
             /\ result = <<>> <=> is_ok(universal)
             /\ is_err(universal) => result[1] = universal.index
    /\ Done("forall") =>
         LET failed == failing_elements(iter, pred).result
         IN  /\ is_ok(result) <=> failed = <<>>
             /\ is_err(result) =>
                  /\ failed[1] = result.index
                  /\ Deref(iter, failed)[1] = iter[result.index + 1]

\* forall has failed past the first element of a sequence with two failing
\* elements
C22_Witness ==
    /\ Done("forall")
    /\ is_err(result)
    /\ result.index > 0
    /\ Len(failing_elements(iter, pred).result) = 2

-----------------------------------------------------------------------------

\* C23: the method exactly_one returns Ok when exactly one element matches
\* the predicate, and Err(UnexpectedMatch) whenever zero elements or more
\* than one element match.
C23_MethodExactlyOne ==
    Done("QuantorExt::exactly_one") =>
        IF Cardinality(Matching(iter, pred)) = 1
        THEN is_ok(result)
        ELSE is_err(result) /\ result.tag = "UnexpectedMatch"

\* C24, as stated: every QuantorExt method returns the same result as the
\* free function of the same name called on the same arguments; so whatever
\* vector the free select_duplicates returns, the method returns it too.
C24_SameResult ==
    /\ Done("QuantorExt::forall") => result = forall(iter, pred).result
    /\ Done("QuantorExt::exists") => result = exists(iter, pred).result
    /\ Done("QuantorExt::none") => result = none(iter, pred).result
    /\ Done("QuantorExt::exactly_one") => result = exactly_one(iter, pred).result
    /\ Done("QuantorExt::exactly_n") => result = exactly_n(iter, n, pred).result
    /\ Done("QuantorExt::all_equal") => result = all_equal(iter).result
    /\ Done("QuantorExt::forallexists") => result = forallexists(iter, b, pred2).result
    /\ Done("QuantorExt::existsforall") => result = existsforall(iter, b, pred2).result
    /\ Done("QuantorExt::pairwise") => result = pairwise(iter, pred2).result
    /\ Done("QuantorExt::failing_elements") => result = failing_elements(iter, pred).result
    /\ Done("QuantorExt::select_where") => result = select_where(iter, pred).result
    /\ Done("QuantorExt::select_unique") => result = select_unique(iter, pred).result
    /\ Done("QuantorExt::select_duplicates") =>
         \A vec \in select_duplicates(iter) : result = vec

\* C24, amended: every QuantorExt method returns the same result, after the
\* same predicate invocations, as the free function of the same name called
\* on the same arguments; the method select_duplicates returns the same
\* values as the free function, in an order of its own.
C24_Forwarding ==
    /\ Done("QuantorExt::forall") =>
         Ret(result, calls) = forall(iter, pred)
    /\ Done("QuantorExt::exists") =>
         Ret(result, calls) = exists(iter, pred)
    /\ Done("QuantorExt::none") =>
         Ret(result, calls) = none(iter, pred)
    /\ Done("QuantorExt::exactly_one") =>
         Ret(result, calls) = exactly_one(iter, pred)
    /\ Done("QuantorExt::exactly_n") =>
         Ret(result, calls) = exactly_n(iter, n, pred)
    /\ Done("QuantorExt::all_equal") =>
         Ret(result, calls) = all_equal(iter)
    /\ Done("QuantorExt::forallexists") =>
         Ret(result, calls) = forallexists(iter, b, pred2)
    /\ Done("QuantorExt::existsforall") =>
         Ret(result, calls) = existsforall(iter, b, pred2)
    /\ Done("QuantorExt::pairwise") =>
         Ret(result, calls) = pairwise(iter, pred2)
    /\ Done("QuantorExt::failing_elements") =>
         Ret(result, calls) = failing_elements(iter, pred)
    /\ Done("QuantorExt::select_where") =>
         Ret(result, calls) = select_where(iter, pred)
    /\ Done("QuantorExt::select_unique") =>
         Ret(result, calls) = select_unique(iter, pred)
    /\ Done("QuantorExt::select_duplicates") =>
         /\ \A vec \in select_duplicates(iter) :
                Range(Deref(iter, result)) = Range(Deref(iter, vec))
         /\ Len(result) = Cardinality(Repeated(iter))

\* the method select_duplicates has returned two values in one order where
\* the free function can return them in the other
C24_Witness ==
    /\ Done("QuantorExt::select_duplicates")
    /\ Len(result) = 2
    /\ <<result[2], result[1]>> \in select_duplicates(iter)

-----------------------------------------------------------------------------

Panicked == pc = "done" /\ result.tag = "Panic"
CompletedNormally == pc = "done" /\ result = Completed

-----------------------------------------------------------------------------

\* the core operations: the evaluators and the selectors
Evaluators ==
    {"forall", "exists", "none", "exactly_one", "exactly_n", "all_equal",
     "pairwise", "forallexists", "existsforall"}
Selectors ==
    {"failing_elements", "select_where", "select_unique", "select_duplicates"}

\* the most predicate invocations a call with these arguments has room for:
\* one for each element, each adjacent pair, or each pair of a left and a
\* right element
MostCalls ==
    CASE op \in {"forallexists", "existsforall"} -> Len(iter) * Len(b)
      [] op = "pairwise" -> IF Len(iter) = 0 THEN 0 ELSE Len(iter) - 1
      [] op \in {"all_equal", "select_duplicates"} -> 0
      [] OTHER -> Len(iter)

\* the predicate invocations among the calls recorded
IsInvocation(c) == op \in {"forallexists", "existsforall"} => Len(c) = 2
Invocations == SelectSeq(calls, IsInvocation)

\* a call with an empty sequence among its arguments
EmptyInputCall ==
    iter = <<>> \/ (op \in {"forallexists", "existsforall"} /\ b = <<>>)

\* C26: the core operations are total.  A call of an evaluator or a selector
\* on finite sequences ends, after finitely many predicate invocations, in
\* exactly one outcome: success or one failure descriptor from an evaluator,
\* a list of borrows of the input from a selector; never a panic, and
\* nothing follows the return.  A call on an empty sequence returns too.
C26_Total ==
    op \in Evaluators \cup Selectors =>
        /\ (pc = "call" /\ EmptyInputCall) => ENABLED Next
        /\ pc = "done" =>
             /\ ~ENABLED Next
             /\ Len(Invocations) <= MostCalls
             /\ op \in Evaluators => result \in Results
             /\ op \in Selectors =>
                  /\ DOMAIN result = 1..Len(result)
                  /\ \A k \in DOMAIN result : result[k] \in Positions(iter)

\* all_equal has returned from a call on the empty sequence
C26_Witness ==
    /\ pc = "done"
    /\ op = "all_equal"
    /\ iter = <<>>
    /\ result = Ok

-----------------------------------------------------------------------------

\* one invocation of a unary predicate on each of the first m elements, in
\* sequence order
InOrder(m) == [k \in 1..m |-> <<k - 1>>]

\* C27: exactly_n does not short-circuit: by the time it returns, the
\* predicate has been invoked exactly once on every element of xs, in
\* sequence order, also when the running count of matches exceeded n before
\* the end of xs.
C27_NoShortCircuit ==
    Done("exactly_n") =>
        /\ calls = InOrder(Len(iter))
        /\ \A i \in Positions(iter) :
              Cardinality({k \in DOMAIN calls : calls[k] = <<i>>}) = 1

\* exactly_n has gone on to the last element although the first two elements
\* already made more matches than expected
C27_Witness ==
    /\ Done("exactly_n")
    /\ n = 1
    /\ Len(iter) = 3
    /\ {0, 1} \subseteq Matching(iter, pred)
    /\ calls[Len(calls)] = <<2>>

\* the invocations of a scan that stops at the decisive position, the least
\* member of Decisive, and goes through the whole of xs when there is none
ShortCircuit(xs, Decisive) ==
    IF Decisive = {} THEN InOrder(Len(xs)) ELSE InOrder(Min(Decisive) + 1)

\* C28: forall, exists, none and exactly_one evaluate left to right and
\* short-circuit on the first decisive element: the predicate is invoked at
\* most once on an element, in sequence order, on the prefix of xs that ends
\* at the decisive element (the first failing one for forall, the first
\* matching one for exists and none, the second matching one for
\* exactly_one) and on no later element; with no decisive element it is
\* invoked once on every element.
C28_ShortCircuit ==
    /\ Done("forall") => calls = ShortCircuit(iter, Failing(iter, pred))
    /\ Done("exists") => calls = ShortCircuit(iter, Matching(iter, pred))
    /\ Done("none") => calls = ShortCircuit(iter, Matching(iter, pred))
    /\ Done("exactly_one") =>
         calls = ShortCircuit(iter, {i \in Matching(iter, pred) :
                                        \E j \in Matching(iter, pred) : j < i})
    /\ Done("forall") \/ Done("exists") \/ Done("none") \/ Done("exactly_one") =>
         /\ \A k, l \in DOMAIN calls : k < l => calls[k][1] < calls[l][1]
         /\ \A k \in DOMAIN calls : calls[k][1] \in Positions(iter)

\* exists has returned at a match in the middle of a sequence whose last
\* element matches too
C28_Witness ==
    /\ Done("exists")
    /\ Len(iter) = 3
    /\ Matching(iter, pred) = {1, 2}
    /\ calls = <<<<0>>, <<1>>>>

-----------------------------------------------------------------------------

\* the right positions at which the scan for the left element at position i
\* stops: those where q gives `stop`
DecisiveRight(a, bs, q, stop, i) ==
    {j \in Positions(bs) : (<<a[i + 1], bs[j + 1]>> \in q) = stop}

\* the pairs a nested scan has to evaluate: for the left elements up to the
\* first of DecisiveLeft (all of them when there is none), the right
\* elements up to the first decisive one (all of them when there is none)
PairsToEvaluate(a, bs, q, stop, DecisiveLeft) ==
    {ij \in Positions(a) \X Positions(bs) :
        /\ DecisiveLeft # {} => ij[1] <= Min(DecisiveLeft)
        /\ \A j \in DecisiveRight(a, bs, q, stop, ij[1]) : ij[2] <= j}

\* left elements in order and, for one left element, right elements in order
Before(c, d) == c[1] < d[1] \/ (c[1] = d[1] /\ c[2] < d[2])

\* the trace of a nested scan: b taken once in full, then the pairs to
\* evaluate and no others, each once, in order
NestedTrace(cs, a, bs, q, stop, DecisiveLeft) ==
    LET taken == SubSeq(cs, 1, Len(bs))
        evaluated == SubSeq(cs, Len(bs) + 1, Len(cs))
    IN  /\ Len(cs) >= Len(bs)
        /\ taken = InOrder(Len(bs))
        /\ \A k \in DOMAIN evaluated : Len(evaluated[k]) = 2
        /\ \A k, l \in DOMAIN evaluated :
              k < l => Before(evaluated[k], evaluated[l])
        /\ Range(evaluated) = PairsToEvaluate(a, bs, q, stop, DecisiveLeft)

\* C29: forallexists and existsforall read the right sequence once in full
\* before any predicate call and go through the left sequence once, in
\* order; for a left element a the predicate is called on (a, b) for b in
\* right order, stopping at the first decisive b (the first true for
\* forallexists, the first false for existsforall); no pair is evaluated
\* twice, and none for a left element after the one that decides the result
\* (the first with no partner for forallexists, the first satisfying every b
\* for existsforall).
C29_NestedOrder ==
    /\ Done("forallexists") =>
         NestedTrace(calls, iter, b, pred2, TRUE, NoPartner(iter, b, pred2))
    /\ Done("existsforall") =>
         NestedTrace(calls, iter, b, pred2, FALSE, AllPartners(iter, b, pred2))

\* forallexists has stopped at the first right element for its first left
\* element and gone through both right elements for its second
C29_Witness ==
    /\ Done("forallexists")
    /\ calls = <<<<0>>, <<1>>, <<0, 0>>, <<1, 0>>, <<1, 1>>>>

-----------------------------------------------------------------------------

\* how a failure of exactly_one on a sequence that is not empty and a failure
\* of exactly_n with n = 1 on the same arguments go together
FailuresAgree(one, counted) ==
    /\ one.tag \in {"PredicateFailed", "UnexpectedMatch"}
    /\ counted.tag = "ExactlyNFailed"
    /\ one.tag = "PredicateFailed" => counted.found = 0
    /\ one.tag = "UnexpectedMatch" => counted.found >= 2

\* C30: exactly_one(xs, p) succeeds iff exactly_n(xs, 1, p) succeeds; when
\* exactly_one fails on a sequence that is not empty, exactly_n(xs, 1, p)
\* fails with found = 0 if exactly_one returned PredicateFailed and with
\* found >= 2 if it returned UnexpectedMatch.
C30_OneAndN ==
    /\ Done("exactly_one") =>
         LET counted == exactly_n(iter, 1, pred).result
         IN  /\ is_ok(result) <=> is_ok(counted)
             /\ (is_err(result) /\ iter # <<>>) => FailuresAgree(result, counted)
    /\ (Done("exactly_n") /\ n = 1) =>
         LET one == exactly_one(iter, pred).result
         IN  /\ is_ok(result) <=> is_ok(one)
             /\ (is_err(one) /\ iter # <<>>) => FailuresAgree(one, result)

\* exactly_one has failed at the second of three matches, which exactly_n
\* counts in full
C30_Witness ==
    /\ Done("exactly_one")
    /\ result = UnexpectedMatch("ExactlyOne", 1)
    /\ exactly_n(iter, 1, pred).result = ExactlyNFailed("ExactlyN", 3, 1)


=============================================================================
